---- MODULE Spec2Model ----
(***************************************************************************)
(* NTPTimestamp (src/src/lib.rs): a 64-bit NTP timestamp made of a 32-bit  *)
(* seconds field and a 32-bit binary fraction, with its conversions.       *)
(*                                                                         *)
(* The code computes on u32, u64 and u128.  These do not fit the integers  *)
(* of the model checker, so an unsigned integer is a little-endian         *)
(* sequence of 8-bit limbs: a u32 has 4 limbs, a u64 has 8, a u128 has 16. *)
(* Fixed-width arithmetic is exact arithmetic followed by the overflow     *)
(* rule of the build (a panic with overflow checks, a wrap without).       *)
(***************************************************************************)
EXTENDS Integers, Sequences, FiniteSets, TLC

----------------------------------------------------------------------------
(* Unsigned integers as little-endian limb sequences.                      *)

Base == 2^8

Max(m, n) == IF m >= n THEN m ELSE n

Zero(w) == [i \in 1..w |-> 0]

\* a mod Base^w on w limbs: an `as uN` cast, or a widening u64::from.
Cast(a, w) == [i \in 1..w |-> IF i <= Len(a) THEN a[i] ELSE 0]

\* the limb of a at position i, 0 beyond its length
At(a, i) == IF i <= Len(a) THEN a[i] ELSE 0

\* a small natural (below 2^31) on w limbs
RECURSIVE FromInt(_, _)
FromInt(n, w) == IF w = 0 THEN << >> ELSE <<n % Base>> \o FromInt(n \div Base, w - 1)

\* carry propagation over columns of (possibly negative) column sums;
\* the carry out of the last column is dropped
RECURSIVE CarryFrom(_, _, _)
CarryFrom(cols, i, c) ==
    IF i > Len(cols) THEN << >>
    ELSE LET s == cols[i] + c
         IN  <<s % Base>> \o CarryFrom(cols, i + 1, s \div Base)

Carry(cols) == CarryFrom(cols, 1, 0)

\* -1, 0, 1 as a < b, a = b, a > b (numerically, whatever the lengths)
RECURSIVE CmpFrom(_, _, _)
CmpFrom(a, b, i) ==
    IF i = 0 THEN 0
    ELSE IF At(a, i) < At(b, i) THEN -1
    ELSE IF At(a, i) > At(b, i) THEN 1
    ELSE CmpFrom(a, b, i - 1)

Cmp(a, b) == CmpFrom(a, b, Max(Len(a), Len(b)))

Lt(a, b) == Cmp(a, b) < 0
Le(a, b) == Cmp(a, b) <= 0
Eq(a, b) == Cmp(a, b) = 0

\* whether a is below Base^w, that is, a fits w limbs
Fits(a, w) == \A i \in 1..Len(a) : i > w => a[i] = 0

\* the number of limbs of a up to its highest non-zero one
RECURSIVE Top(_, _)
Top(a, i) == IF i = 0 THEN 0 ELSE IF a[i] # 0 THEN i ELSE Top(a, i - 1)

\* a without its high zero limbs
Norm(a) == SubSeq(a, 1, Top(a, Len(a)))

\* exact sum, one limb longer than the longer operand
Add(a, b) ==
    Carry([i \in 1..(Max(Len(a), Len(b)) + 1) |-> At(a, i) + At(b, i)])

\* a - b modulo Base^w (exact when a >= b and both fit w limbs)
SubMod(a, b, w) == Carry([i \in 1..w |-> At(a, i) - At(b, i)])

\* exact difference of a >= b
Sub(a, b) == SubMod(a, b, Max(Len(a), Len(b)))

\* the sum of x[i] * y[k + 1 - i] for i in lo..hi
RECURSIVE ColumnSum(_, _, _, _, _)
ColumnSum(x, y, k, lo, hi) ==
    IF lo > hi THEN 0
    ELSE x[lo] * y[k + 1 - lo] + ColumnSum(x, y, k, lo + 1, hi)

\* exact product (of the operands without their high zero limbs)
Mul(a, b) ==
    LET x == Norm(a)
        y == Norm(b)
    IN  Carry([k \in 1..(Len(x) + Len(y)) |->
                 ColumnSum(x, y, k, Max(1, k + 1 - Len(y)), IF k < Len(x) THEN k ELSE Len(x))])

\* a natural of at most three limbs as an integer
ToInt(a) == At(a, 1) + Base * At(a, 2) + Base * Base * At(a, 3)

\* short division of the limbs i, i-1, ..., 1 of a by the integer d,
\* 0 < d < 2^23, with r the remainder carried in from the limbs above
RECURSIVE ShortDivFrom(_, _, _, _)
ShortDivFrom(a, d, i, r) ==
    IF i = 0 THEN [q |-> << >>, r |-> FromInt(r, 3)]
    ELSE LET n    == r * Base + a[i]
             rest == ShortDivFrom(a, d, i - 1, n % d)
         IN  [q |-> Append(rest.q, n \div d), r |-> rest.r]

\* the largest digit k (built bit by bit from `bit` down) with k * b <= r
RECURSIVE QuotDigit(_, _, _, _)
QuotDigit(r, b, k, bit) ==
    IF bit = 0 THEN k
    ELSE IF Le(Mul(b, <<k + bit>>), r)
         THEN QuotDigit(r, b, k + bit, bit \div 2)
         ELSE QuotDigit(r, b, k, bit \div 2)

\* long division of the limbs i, i-1, ..., 1 of a by b > 0, with r < b the
\* remainder carried in from the limbs above
RECURSIVE LongDivFrom(_, _, _, _)
LongDivFrom(a, b, i, r) ==
    IF i = 0 THEN [q |-> << >>, r |-> r]
    ELSE LET r1   == <<a[i]>> \o r
             k    == IF Lt(r1, b) THEN 0 ELSE QuotDigit(r1, b, 0, Base \div 2)
             r2   == Cast(Sub(r1, Mul(b, <<k>>)), Len(b))
             rest == LongDivFrom(a, b, i - 1, r2)
         IN  \* the digit and the remainder are computed before descending
             CASE k < Base /\ Lt(r2, b) ->
                  [q |-> Append(rest.q, k), r |-> rest.r]

\* quotient and remainder of a by b > 0
DivMod(a, b) ==
    LET x == Norm(a)
        y == Norm(b)
    IN  IF Len(y) <= 3 /\ ToInt(y) < 2^23
        THEN ShortDivFrom(x, ToInt(y), Len(x), 0)
        ELSE LongDivFrom(x, y, Len(x), Zero(Len(y)))

\* floor(a / b) and a mod b
Div(a, b) == DivMod(a, b).q
Mod(a, b) == DivMod(a, b).r

\* 2^n
RECURSIVE Pow2(_)
Pow2(n) == IF n < 8 THEN <<2^n>> ELSE <<0>> \o Pow2(n - 8)

\* a << n and a >> n on w limbs (n below the width: no shift overflow)
Shl(a, n, w) == Cast(Mul(a, Pow2(n)), w)
Shr(a, n, w) == Cast(Div(a, Pow2(n)), w)

RECURSIVE AndByte(_, _, _)
AndByte(x, y, bit) ==
    IF bit = Base THEN 0
    ELSE (IF (x \div bit) % 2 = 1 /\ (y \div bit) % 2 = 1 THEN bit ELSE 0)
         + AndByte(x, y, 2 * bit)

RECURSIVE OrByte(_, _, _)
OrByte(x, y, bit) ==
    IF bit = Base THEN 0
    ELSE (IF (x \div bit) % 2 = 1 \/ (y \div bit) % 2 = 1 THEN bit ELSE 0)
         + OrByte(x, y, 2 * bit)

BitAnd(a, b) == [i \in 1..Len(a) |-> AndByte(a[i], b[i], 1)]
BitOr(a, b)  == [i \in 1..Len(a) |-> OrByte(a[i], b[i], 1)]

\* a decimal numeral given by its groups of three digits, as the source
\* writes it: 2_208_988_800 is Dec(<<2, 208, 988, 800>>)
RECURSIVE DecFrom(_, _, _)
DecFrom(groups, i, acc) ==
    IF i > Len(groups) THEN acc
    ELSE DecFrom(groups, i + 1, Add(Mul(acc, <<232, 3>>), <<groups[i]>>))

Dec(groups, w) == Cast(DecFrom(groups, 1, << >>), w)

\* a numeral given by its bytes, most significant first
Hex(bytes) == [i \in 1..Len(bytes) |-> bytes[Len(bytes) + 1 - i]]

----------------------------------------------------------------------------
(* Types and constants of src/src/lib.rs.                                  *)

\* limbs of the integer types
U32  == 32 \div 8
U64  == 64 \div 8
U128 == 128 \div 8

U32_MAX == Hex(<<\hFF, \hFF, \hFF, \hFF>>)
U64_MAX == Hex(<<\hFF, \hFF, \hFF, \hFF, \hFF, \hFF, \hFF, \hFF>>)

\* NTP_EPOCH_DELTA.as_secs(): the seconds of Duration::from_secs(2_208_988_800)
NTP_EPOCH_DELTA == Dec(<<2, 208, 988, 800>>, U64)

FRACTION_BITMASK == Hex(<<\h00, \h00, \h00, \h00, \hFF, \hFF, \hFF, \hFF>>)
SECONDS_BITMASK  == Hex(<<\hFF, \hFF, \hFF, \hFF, \h00, \h00, \h00, \h00>>)

SEC_AS_MS == Dec(<<1, 0>>, U64)
SEC_AS_US == Dec(<<1, 0, 0>>, U32)
SEC_AS_NS == Dec(<<1, 0, 0, 0>>, U64)
SEC_AS_PS == Dec(<<1, 0, 0, 0, 0>>, U64)

\* nanoseconds per second and per microsecond of core::time::Duration
NANOS_PER_SEC   == Dec(<<1, 0, 0, 0>>, U32)
NANOS_PER_MICRO == Dec(<<1, 0>>, U32)

VARIABLES
    op,               \* the last call: its name, "start" before the first
    t,                \* the NTPTimestamp the last call took or returned
    u,                \* the NTPTimestamp the last comparison compared t with
    x,                \* the u64 the last call took or returned
    d,                \* the Duration the last call took or returned
    rel,              \* what the last comparison returned: [lt, eq]
    panicked,         \* the last call panicked: the thread is gone
    overflow_checks,  \* the build: arithmetic overflow panics (debug) or wraps
    depth             \* calls made so far

vars == <<op, t, u, x, d, rel, panicked, overflow_checks, depth>>

\* the result of a call that may panic
Ok(v) == [panic |-> FALSE, val |-> v]

\* a + b, a - b and a * b in the w-limb type: with overflow checks an
\* overflow panics, without them the result wraps
CheckedAdd(a, b, w) ==
    LET exact == Add(a, b)
    IN  [panic |-> overflow_checks /\ ~Fits(exact, w), val |-> Cast(exact, w)]

CheckedSub(a, b, w) ==
    [panic |-> overflow_checks /\ Lt(a, b), val |-> SubMod(a, b, w)]

CheckedMul(a, b, w) ==
    LET exact == Mul(a, b)
    IN  [panic |-> overflow_checks /\ ~Fits(exact, w), val |-> Cast(exact, w)]

----------------------------------------------------------------------------
(* core::time::Duration, as the code uses it: whole seconds (u64) and      *)
(* nanoseconds below one second (u32).                                     *)

Duration(secs, nanos) == [secs |-> secs, nanos |-> nanos]

as_secs(duration) == duration.secs

subsec_micros(duration) == Cast(Div(duration.nanos, NANOS_PER_MICRO), U32)

Duration_from_secs(secs) == Duration(secs, Zero(U32))

Duration_from_nanos(nanos) ==
    LET qr == DivMod(nanos, NANOS_PER_SEC)
    IN  Duration(Cast(qr.q, U64), Cast(qr.r, U32))

\* Duration + Duration: the nanoseconds carry into the seconds; an overflow
\* of the seconds panics in every build
Duration_add(a, b) ==
    LET nanos == Add(a.nanos, b.nanos)
        carry == ~Lt(nanos, NANOS_PER_SEC)
        secs  == Add(Add(a.secs, b.secs), IF carry THEN <<1>> ELSE <<0>>)
    IN  [panic |-> ~Fits(secs, U64),
         val   |-> Duration(Cast(secs, U64),
                            Cast(IF carry THEN Sub(nanos, NANOS_PER_SEC) ELSE nanos, U32))]

----------------------------------------------------------------------------
(* NTPTimestamp.                                                           *)

new(seconds, fraction) == [seconds |-> seconds, fraction |-> fraction]

encode_to_u64(high, low) ==
    BitOr(Shl(Cast(high, U64), 32, U64), Cast(low, U64))

\* decode_from_u64 without the shift of the seconds
decode_from_u64_NoShift(ts) ==
    LET seconds  == Cast(BitAnd(ts, SECONDS_BITMASK), U32)
        fraction == Cast(BitAnd(ts, FRACTION_BITMASK), U32)
    IN  new(seconds, fraction)

decode_from_u64(ts) ==
    LET seconds  == Cast(Shr(BitAnd(ts, SECONDS_BITMASK), 32, U64), U32)
        fraction == Cast(BitAnd(ts, FRACTION_BITMASK), U32)
    IN  new(seconds, fraction)

timestamp(self) == encode_to_u64(self.seconds, self.fraction)

from_ntp_timestamp(ts) == decode_from_u64(ts)

\* from_unix_sec without the epoch delta
from_unix_sec_NoDelta(ts) == [panic |-> FALSE, val |-> Cast(ts, U32)]

from_unix_sec(ts) ==
    LET sum == CheckedAdd(ts, NTP_EPOCH_DELTA, U64)
    IN  [panic |-> sum.panic, val |-> Cast(sum.val, U32)]

\* micros_fraction dividing by the milliseconds of a second
micros_fraction_ByMillis(ts) ==
    LET ts64  == Cast(ts, U64)
        us    == SEC_AS_MS
        scale == Cast(U32_MAX, U64)
        prod  == CheckedMul(ts64, scale, U64)
    IN  [panic |-> prod.panic, val |-> Cast(Div(prod.val, us), U32)]

micros_fraction(ts) ==
    LET ts64  == Cast(ts, U64)
        us    == Cast(SEC_AS_US, U64)
        scale == Cast(U32_MAX, U64)
        prod  == CheckedMul(ts64, scale, U64)
    IN  [panic |-> prod.panic, val |-> Cast(Div(prod.val, us), U32)]

from_unix_timestamp(ts) ==
    LET seconds == from_unix_sec(ts)
    IN  [panic |-> seconds.panic, val |-> new(seconds.val, Zero(U32))]

fraction_as_ms(self) ==
    LET prod == CheckedMul(Cast(self.fraction, U64), SEC_AS_MS, U64)
    IN  [panic |-> prod.panic, val |-> Shr(prod.val, 32, U64)]

fraction_as_us(self) ==
    LET prod == CheckedMul(Cast(self.fraction, U64), Cast(SEC_AS_US, U64), U64)
    IN  [panic |-> prod.panic, val |-> Shr(prod.val, 32, U64)]

fraction_as_ns(self) ==
    LET prod == CheckedMul(Cast(self.fraction, U64), SEC_AS_NS, U64)
    IN  [panic |-> prod.panic, val |-> Shr(prod.val, 32, U64)]

\* fraction_as_ps with a 64-bit product
fraction_as_ps_In64(self) ==
    LET prod == CheckedMul(Cast(self.fraction, U64), SEC_AS_PS, U64)
    IN  [panic |-> prod.panic, val |-> Shr(prod.val, 32, U64)]

fraction_as_ps(self) ==
    LET prod == CheckedMul(Cast(self.fraction, U128), Cast(SEC_AS_PS, U128), U128)
    IN  [panic |-> prod.panic, val |-> Cast(Shr(prod.val, 32, U128), U64)]

to_unix_timestamp(self) ==
    LET seconds  == CheckedSub(Cast(self.seconds, U64), NTP_EPOCH_DELTA, U64)
        fraction == Cast(Div(Cast(self.fraction, U64), Cast(U32_MAX, U64)), U64)
        sum      == CheckedAdd(seconds.val, fraction, U64)
    IN  [panic |-> seconds.panic \/ sum.panic, val |-> sum.val]

from_unix_duration(duration) ==
    LET seconds  == from_unix_sec(as_secs(duration))
        fraction == micros_fraction(subsec_micros(duration))
    IN  [panic |-> seconds.panic \/ fraction.panic,
         val   |-> new(seconds.val, fraction.val)]

from_duration(duration) ==
    LET seconds  == Cast(as_secs(duration), U32)
        fraction == micros_fraction(subsec_micros(duration))
    IN  [panic |-> fraction.panic, val |-> new(seconds, fraction.val)]

\* to_duration taking the microseconds of the fraction for nanoseconds
to_duration_FromMicros(self) ==
    LET secs     == Duration_from_secs(Cast(self.seconds, U64))
        nanos    == fraction_as_us(self)
        fraction == Duration_from_nanos(nanos.val)
        sum      == Duration_add(secs, fraction)
    IN  [panic |-> nanos.panic \/ sum.panic, val |-> sum.val]

to_duration(self) ==
    LET secs     == Duration_from_secs(Cast(self.seconds, U64))
        nanos    == fraction_as_ns(self)
        fraction == Duration_from_nanos(nanos.val)
        sum      == Duration_add(secs, fraction)
    IN  [panic |-> nanos.panic \/ sum.panic, val |-> sum.val]

\* as_nanoseconds multiplying in u32, the type of the field
as_nanoseconds_In32(self) ==
    LET whole == CheckedMul(self.seconds, SEC_AS_NS, U32)
        nanos == fraction_as_ns(self)
        sum   == CheckedAdd(Cast(whole.val, U64), nanos.val, U64)
    IN  [panic |-> whole.panic \/ nanos.panic \/ sum.panic, val |-> sum.val]

as_nanoseconds(self) ==
    LET whole == CheckedMul(Cast(self.seconds, U64), SEC_AS_NS, U64)
        nanos == fraction_as_ns(self)
        sum   == CheckedAdd(whole.val, nanos.val, U64)
    IN  [panic |-> whole.panic \/ nanos.panic \/ sum.panic, val |-> sum.val]

\* the host clock read as SystemTime::now().duration_since(UNIX_EPOCH):
\* Err when the clock is before the Unix epoch, and then expect() panics
now(clock) ==
    IF clock.before_epoch
    THEN [panic |-> TRUE, val |-> new(Zero(U32), Zero(U32))]
    ELSE LET seconds  == from_unix_sec(as_secs(clock.since))
             fraction == micros_fraction(subsec_micros(clock.since))
         IN  [panic |-> seconds.panic \/ fraction.panic,
              val   |-> new(seconds.val, fraction.val)]

\* DurationExt for time::Duration
ntp_from_unix(duration) == from_unix_duration(duration)
ntp_timestamp(duration) == from_duration(duration)

\* #[derive(PartialEq, Eq)]: field by field
eq(self, other) ==
    self.seconds = other.seconds /\ self.fraction = other.fraction

\* the order derived with the fields declared fraction first
cmp_FractionFirst(self, other) ==
    IF Cmp(self.fraction, other.fraction) # 0
    THEN Cmp(self.fraction, other.fraction)
    ELSE Cmp(self.seconds, other.seconds)

\* #[derive(PartialOrd, Ord)]: the fields in the order of their declaration,
\* the first that differs decides
cmp(self, other) ==
    IF Cmp(self.seconds, other.seconds) # 0
    THEN Cmp(self.seconds, other.seconds)
    ELSE Cmp(self.fraction, other.fraction)

lt(self, other) == cmp(self, other) < 0

----------------------------------------------------------------------------
(* The inputs the calls are tried on: the values the documentation and the *)
(* tests use, the edges of each range, and NumSamples values spread over   *)
(* the range by a multiplicative hash.                                     *)

NumSamples == 4

\* calls in one run of the general specification
MaxChain == 3

\* calls in one run of the round-trip specification
MaxRoundTrip == 5

Sample32(i) == Cast(Mul(FromInt(i, U32), Dec(<<2, 654, 435, 761>>, U32)), U32)

Sample64(i) ==
    Cast(Mul(FromInt(i, U32), Hex(<<\h9E, \h37, \h79, \hB9, \h7F, \h4A, \h7C, \h15>>)), U64)

SampleMicros(i) == (i * 618034) % 1000000

\* 2^32 - 2_208_988_800: the first Unix second whose NTP seconds wrap
ERA_END == Cast(Sub(Pow2(32), NTP_EPOCH_DELTA), U64)

SecondsInputs ==
    { Zero(U32), FromInt(1, U32), FromInt(256, U32), Dec(<<1, 0, 0>>, U32),
      Cast(Sub(NTP_EPOCH_DELTA, <<1>>), U32), Cast(NTP_EPOCH_DELTA, U32),
      Dec(<<3, 849, 984, 0>>, U32), U32_MAX }
    \cup { Sample32(i) : i \in 1..NumSamples }

FractionInputs ==
    { Zero(U32), FromInt(1, U32), FromInt(256, U32),
      Hex(<<\h20, \h00, \h00, \h00>>), Hex(<<\h40, \h00, \h00, \h00>>),
      Hex(<<\h7F, \hFF, \hFF, \hFF>>), Hex(<<\h80, \h00, \h00, \h00>>),
      Hex(<<\hFF, \hFF, \hFF, \hFE>>), U32_MAX }
    \cup { Sample32(NumSamples + i) : i \in 1..NumSamples }

TimestampInputs == { new(s, f) : s \in SecondsInputs, f \in FractionInputs }

\* the right-hand sides of the comparisons
OtherInputs ==
    { new(s, f) : s \in { Zero(U32), FromInt(1, U32), FromInt(256, U32),
                          Cast(NTP_EPOCH_DELTA, U32), U32_MAX },
                  f \in { Zero(U32), FromInt(1, U32), FromInt(256, U32),
                          Hex(<<\h80, \h00, \h00, \h00>>), U32_MAX } }

U64Inputs ==
    { Zero(U64), FromInt(1, U64), Dec(<<1, 640, 995, 200>>, U64),
      Dec(<<4, 294, 968, 369, 741, 824>>, U64),
      Cast(Sub(ERA_END, <<1>>), U64), ERA_END, Cast(Pow2(32), U64),
      Cast(Sub(U64_MAX, NTP_EPOCH_DELTA), U64),
      Cast(Add(Sub(U64_MAX, NTP_EPOCH_DELTA), <<1>>), U64), U64_MAX }
    \cup { Sample64(i) : i \in 1..NumSamples }

MicrosInputs ==
    { 0, 1, 250, 250000, 500000, 999999 } \cup { SampleMicros(i) : i \in 1..NumSamples }

\* sub-second nanoseconds: whole microseconds, and 999 ns more
NanosInputs ==
    { FromInt(us * 1000 + ns, U32) : us \in MicrosInputs, ns \in {0, 999} }

DurationSecsInputs ==
    { Zero(U64), Dec(<<1, 0, 0>>, U64), Dec(<<1, 640, 995, 200>>, U64),
      Cast(Sub(ERA_END, <<1>>), U64), ERA_END, Cast(Pow2(32), U64),
      Cast(Add(Sub(U64_MAX, NTP_EPOCH_DELTA), <<1>>), U64), U64_MAX }

DurationInputs ==
    { Duration(secs, nanos) : secs \in DurationSecsInputs, nanos \in NanosInputs }

\* what the host clock may read: a time before the Unix epoch, or a
\* duration since it of at most i64::MAX seconds
ClockInputs ==
    { [before_epoch |-> TRUE, since |-> Duration(Zero(U64), Zero(U32))] }
    \cup { [before_epoch |-> FALSE, since |-> Duration(secs, nanos)] :
             secs \in { Zero(U64), Dec(<<1, 640, 995, 200>>, U64),
                        Cast(Sub(ERA_END, <<1>>), U64), ERA_END, Cast(Pow2(32), U64),
                        Cast(Sub(Pow2(63), <<1>>), U64) },
             nanos \in NanosInputs }

----------------------------------------------------------------------------
(* The state machine: one run is a chain of calls.  The first call takes   *)
(* its input from the sets above, each later call takes what the call      *)
(* before it returned.  A slot no part of the last call is at its default. *)

NoTimestamp == new(Zero(U32), Zero(U32))
NoU64       == Zero(U64)
NoDuration  == Duration(Zero(U64), Zero(U32))
NoRel       == [lt |-> FALSE, eq |-> FALSE]

\* the calls that return an NTPTimestamp, a u64, a Duration
TimestampOps ==
    { "new", "from_ntp_timestamp", "from_unix_timestamp", "from_unix_duration",
      "from_duration", "now" }
U64Ops ==
    { "timestamp", "to_unix_timestamp", "as_nanoseconds", "fraction_as_ms",
      "fraction_as_us", "fraction_as_ns", "fraction_as_ps" }
DurationOps == { "to_duration" }

\* the arguments a call may take now
U64Args      == IF op = "start" THEN U64Inputs ELSE IF op \in U64Ops THEN {x} ELSE {}
DurationArgs == IF op = "start" THEN DurationInputs ELSE IF op \in DurationOps THEN {d} ELSE {}

Init ==
    /\ op = "start"
    /\ t = NoTimestamp
    /\ u = NoTimestamp
    /\ x = NoU64
    /\ d = NoDuration
    /\ rel = NoRel
    /\ panicked = FALSE
    /\ overflow_checks \in BOOLEAN
    /\ depth = 0

\* the state after the call `name`
Called(name, ts, other, n, dur, r, panic) ==
    /\ op' = name
    /\ t' = ts
    /\ u' = other
    /\ x' = n
    /\ d' = dur
    /\ rel' = r
    /\ panicked' = panic
    /\ depth' = depth + 1
    /\ UNCHANGED overflow_checks

CanCall(bound) == ~panicked /\ depth < bound

New(bound) ==
    /\ CanCall(bound)
    /\ op = "start"
    /\ \E s \in SecondsInputs, f \in FractionInputs :
         Called("new", new(s, f), NoTimestamp, NoU64, NoDuration, NoRel, FALSE)

FromNtpTimestamp(bound) ==
    /\ CanCall(bound)
    /\ \E ts \in U64Args :
         Called("from_ntp_timestamp", from_ntp_timestamp(ts), NoTimestamp, ts,
                NoDuration, NoRel, FALSE)

FromUnixTimestamp(bound) ==
    /\ CanCall(bound)
    /\ \E ts \in U64Args :
         LET r == from_unix_timestamp(ts)
         IN  Called("from_unix_timestamp", IF r.panic THEN NoTimestamp ELSE r.val,
                    NoTimestamp, ts, NoDuration, NoRel, r.panic)

FromUnixDuration(bound) ==
    /\ CanCall(bound)
    /\ \E duration \in DurationArgs :
         LET r == from_unix_duration(duration)
         IN  Called("from_unix_duration", IF r.panic THEN NoTimestamp ELSE r.val,
                    NoTimestamp, NoU64, duration, NoRel, r.panic)

FromDuration(bound) ==
    /\ CanCall(bound)
    /\ \E duration \in DurationArgs :
         LET r == from_duration(duration)
         IN  Called("from_duration", IF r.panic THEN NoTimestamp ELSE r.val,
                    NoTimestamp, NoU64, duration, NoRel, r.panic)

Now(bound) ==
    /\ CanCall(bound)
    /\ op = "start"
    /\ \E clock \in ClockInputs :
         LET r == now(clock)
         IN  Called("now", IF r.panic THEN NoTimestamp ELSE r.val,
                    NoTimestamp, NoU64, clock.since, NoRel, r.panic)

\* a method of t that returns a u64
U64Method(bound, name, r) ==
    /\ CanCall(bound)
    /\ op \in TimestampOps
    /\ Called(name, t, NoTimestamp, IF r.panic THEN NoU64 ELSE r.val,
              NoDuration, NoRel, r.panic)

Timestamp(bound)       == U64Method(bound, "timestamp", Ok(timestamp(t)))
ToUnixTimestamp(bound) == U64Method(bound, "to_unix_timestamp", to_unix_timestamp(t))
AsNanoseconds(bound)   == U64Method(bound, "as_nanoseconds", as_nanoseconds(t))
FractionAsMs(bound)    == U64Method(bound, "fraction_as_ms", fraction_as_ms(t))
FractionAsUs(bound)    == U64Method(bound, "fraction_as_us", fraction_as_us(t))
FractionAsNs(bound)    == U64Method(bound, "fraction_as_ns", fraction_as_ns(t))
FractionAsPs(bound)    == U64Method(bound, "fraction_as_ps", fraction_as_ps(t))

ToDuration(bound) ==
    /\ CanCall(bound)
    /\ op \in TimestampOps
    /\ LET r == to_duration(t)
       IN  Called("to_duration", t, NoTimestamp, NoU64,
                  IF r.panic THEN NoDuration ELSE r.val, NoRel, r.panic)

\* t < other and t == other
Compare(bound) ==
    /\ CanCall(bound)
    /\ op = "new"
    /\ \E other \in OtherInputs :
         Called("compare", t, other, NoU64, NoDuration,
                [lt |-> lt(t, other), eq |-> eq(t, other)], FALSE)

Next ==
    \/ New(MaxChain)
    \/ FromNtpTimestamp(MaxChain)
    \/ FromUnixTimestamp(MaxChain)
    \/ FromUnixDuration(MaxChain)
    \/ FromDuration(MaxChain)
    \/ Now(MaxChain)
    \/ Timestamp(MaxChain)
    \/ ToUnixTimestamp(MaxChain)
    \/ AsNanoseconds(MaxChain)
    \/ FractionAsMs(MaxChain)
    \/ FractionAsUs(MaxChain)
    \/ FractionAsNs(MaxChain)
    \/ FractionAsPs(MaxChain)
    \/ ToDuration(MaxChain)
    \/ Compare(MaxChain)

Spec == Init /\ [][Next]_vars

\* timestamps taken through to_duration and from_duration, again and again
NextRoundTrip ==
    \/ New(MaxRoundTrip)
    \/ ToDuration(MaxRoundTrip)
    \/ FromDuration(MaxRoundTrip)

SpecRoundTrip == Init /\ [][NextRoundTrip]_vars

----------------------------------------------------------------------------
(* The claims.  They are stated in exact arithmetic, on naturals of any    *)
(* length, next to the fixed-width arithmetic of the code.                 *)

\* seconds * 2^32 + fraction
Packed(ts) == Add(Mul(ts.seconds, Pow2(32)), ts.fraction)

\* q = floor(n / m), m > 0: q * m <= n < (q + 1) * m
IsFloorOf(q, n, m) == Le(Mul(q, m), n) /\ Lt(n, Mul(Add(q, <<1>>), m))

\* 10^3, 10^6, 10^9, 10^12
Thousand  == <<232, 3>>
Million   == Mul(Thousand, Thousand)
Billion   == Mul(Million, Thousand)
Trillion  == Mul(Billion, Thousand)

\* C1: timestamp() returns seconds * 2^32 + fraction; from_ntp_timestamp of
\* what timestamp() returned gives back both fields; timestamp() of what
\* from_ntp_timestamp(x) returned gives back x.
C1_PackedRoundTrip ==
    /\ [](op = "timestamp" => Eq(x, Packed(t)))
    /\ [][op = "timestamp" /\ op' = "from_ntp_timestamp"
            => t'.seconds = t.seconds /\ t'.fraction = t.fraction]_vars
    /\ [][op = "from_ntp_timestamp" /\ op' = "timestamp" => x' = x]_vars

\* new(1_000_000, 0x4000_0000) packed and unpacked again
C1_Witness ==
    /\ op = "from_ntp_timestamp"
    /\ depth = 3
    /\ x = Dec(<<4, 294, 968, 369, 741, 824>>, U64)
    /\ t = new(Dec(<<1, 0, 0>>, U32), Hex(<<\h40, \h00, \h00, \h00>>))

\* C2: from_unix_duration and from_duration set the fraction to
\* floor(us * 2^32 / 1_000_000), us the microseconds of the duration.
C2_FractionIsMicrosTimesTwoTo32 ==
    op \in {"from_unix_duration", "from_duration"} /\ ~panicked
        => IsFloorOf(t.fraction, Mul(subsec_micros(d), Pow2(32)), Million)

\* C3: from_unix_timestamp(ts) never fails, and returns the seconds
\* (ts + 2_208_988_800) mod 2^32 with the fraction 0.
C3_FromUnixTimestampWraps ==
    op = "from_unix_timestamp"
        => /\ ~panicked
           /\ t.seconds = Cast(Add(x, Dec(<<2, 208, 988, 800>>, U64)), U32)
           /\ t.fraction = Zero(U32)

\* C4: with seconds >= 2_208_988_800, to_unix_timestamp() returns
\* seconds - 2_208_988_800 whatever the fraction.
C4_FractionAddsNothing ==
    op = "to_unix_timestamp" /\ Le(Dec(<<2, 208, 988, 800>>, U64), t.seconds)
        => /\ ~panicked
           /\ Eq(x, Sub(t.seconds, Dec(<<2, 208, 988, 800>>, U64)))

\* C5: whatever the clock reads at or after the Unix epoch, to_duration()
\* of what now() returned is at least 2_208_988_800 seconds.
C5_NowIsAfterEpochDelta ==
    [][op = "now" /\ ~panicked /\ op' = "to_duration"
         => ~panicked' /\ Le(Dec(<<2, 208, 988, 800>>, U64), d'.secs)]_vars

\* C5, amended: the same for the clock readings whose seconds s have
\* s mod 2^32 < 2^32 - 2_208_988_800 = 2_085_978_496, the readings of an era
\* in which the seconds field has not wrapped.
C5_NowIsAfterEpochDeltaWithinEra ==
    [][( op = "now" /\ ~panicked
         /\ Lt(Cast(d.secs, U32), Dec(<<2, 85, 978, 496>>, U64))
         /\ op' = "to_duration" )
         => ~panicked' /\ Le(Dec(<<2, 208, 988, 800>>, U64), d'.secs)]_vars

\* now() at 2022-01-01T00:00:00.25Z, then to_duration()
C5_Witness ==
    /\ op = "to_duration"
    /\ depth = 2
    /\ t = now([before_epoch |-> FALSE,
                since |-> Duration(Dec(<<1, 640, 995, 200>>, U64),
                                   Dec(<<250, 0, 0>>, U32))]).val
    /\ d.secs = Dec(<<3, 849, 984, 0>>, U64)

\* seconds * 10^9 + floor(fraction * 10^9 / 2^32), the nanoseconds of ts
NanosecondsOf(ts) ==
    Add(Mul(ts.seconds, Billion), Div(Mul(ts.fraction, Billion), Pow2(32)))

\* C6: some pair (seconds, fraction) makes
\* seconds * 1_000_000_000 + fraction_as_ns() exceed 2^64 - 1 (looked for
\* once as_nanoseconds() has been called on the largest timestamp).
C6_SomePairOverflows ==
    op = "as_nanoseconds" /\ t = new(U32_MAX, U32_MAX)
        => \E s \in SecondsInputs, f \in FractionInputs :
               Lt(U64_MAX, Add(Mul(s, Billion), fraction_as_ns(new(s, f)).val))

\* C6, amended: no pair does; as_nanoseconds() returns the exact sum, which
\* is at most 4_294_967_295_999_999_999, in every build.
C6_NeverOverflows ==
    op = "as_nanoseconds"
        => /\ ~panicked
           /\ Eq(x, NanosecondsOf(t))
           /\ Le(NanosecondsOf(t), Dec(<<4, 294, 967, 295, 999, 999, 999>>, U64))

\* as_nanoseconds() of the largest timestamp
C6_Witness ==
    /\ op = "as_nanoseconds"
    /\ t = new(U32_MAX, U32_MAX)
    /\ ~panicked
    /\ x = Dec(<<4, 294, 967, 295, 999, 999, 999>>, U64)

\* C7: fraction_as_ms, _us, _ns and _ps return floor(fraction * scale / 2^32)
\* for scale 10^3, 10^6, 10^9, 10^12: nothing overflows, in any build.
C7_FractionScaling ==
    /\ op = "fraction_as_ms"
         => ~panicked /\ IsFloorOf(x, Mul(t.fraction, Thousand), Pow2(32))
    /\ op = "fraction_as_us"
         => ~panicked /\ IsFloorOf(x, Mul(t.fraction, Million), Pow2(32))
    /\ op = "fraction_as_ns"
         => ~panicked /\ IsFloorOf(x, Mul(t.fraction, Billion), Pow2(32))
    /\ op = "fraction_as_ps"
         => ~panicked /\ IsFloorOf(x, Mul(t.fraction, Trillion), Pow2(32))

\* the picoseconds of the largest fraction, whose product needs 72 bits
C7_Witness ==
    /\ op = "fraction_as_ps"
    /\ t.fraction = U32_MAX
    /\ overflow_checks
    /\ x = Dec(<<999, 999, 999, 767>>, U64)

\* C8: to_duration() has the seconds of the timestamp and
\* floor(fraction * 10^9 / 2^32) nanoseconds, which is below 10^9.
C8_ToDuration ==
    op = "to_duration"
        => /\ ~panicked
           /\ Eq(d.secs, t.seconds)
           /\ IsFloorOf(d.nanos, Mul(t.fraction, Billion), Pow2(32))
           /\ Lt(d.nanos, Billion)

\* to_duration() of the largest timestamp: 999_999_999 ns and no carry
C8_Witness ==
    /\ op = "to_duration"
    /\ t = new(U32_MAX, U32_MAX)
    /\ d = Duration(Cast(U32_MAX, U64), Dec(<<999, 999, 999>>, U32))

\* C9: a < b exactly when a.seconds < b.seconds, or the seconds are equal
\* and a.fraction < b.fraction; a < b and a == b are the order and the
\* equality of the packed values timestamp() returns.
C9_OrderIsPackedOrder ==
    op = "compare"
        => /\ rel.lt <=> \/ Lt(t.seconds, u.seconds)
                         \/ Eq(t.seconds, u.seconds) /\ Lt(t.fraction, u.fraction)
           /\ rel.lt <=> Lt(timestamp(t), timestamp(u))
           /\ rel.eq <=> Eq(timestamp(t), timestamp(u))

\* fewer seconds and a larger fraction: less
C9_Witness ==
    /\ op = "compare"
    /\ t = new(FromInt(256, U32), U32_MAX)
    /\ u = new(Cast(NTP_EPOCH_DELTA, U32), FromInt(1, U32))
    /\ rel.lt /\ ~rel.eq

\* C10: from_duration(to_duration(ts)) has the seconds of ts and a fraction
\* that is at most that of ts, each time the round trip is made.
C10_RoundTripOnlyLosesDownward ==
    [][op = "to_duration" /\ op' = "from_duration"
         => /\ ~panicked'
            /\ t'.seconds = t.seconds
            /\ Le(t'.fraction, t.fraction)]_vars

\* new(1_000_000, 0x4000_0000) after two round trips: a microsecond lost
\* each time
C10_Witness ==
    /\ op = "from_duration"
    /\ depth = 5
    /\ t.seconds = Dec(<<1, 0, 0>>, U32)
    /\ d.nanos = Dec(<<249, 999, 999>>, U32)
    /\ Lt(t.fraction, Hex(<<\h3F, \hFF, \hFF, \hFF>>))

====
